---- MODULE Spec2Model ----
(***************************************************************************)
(* Model of the tool dispatcher of mcp-file-server (src/server.py).        *)
(*                                                                         *)
(* Texts are sequences of one-character strings, so that two texts are     *)
(* equal exactly when the Python strings are.  The host is POSIX: paths    *)
(* are pathlib.PurePosixPath values, os.linesep is "\n", and the file      *)
(* system is a tree of directories and regular files (no symbolic links,   *)
(* no permissions).  The process runs with "/" as working directory.       *)
(***************************************************************************)
EXTENDS Naturals, Sequences, FiniteSets, TLC

VARIABLES
    fs,       \* the file system: absolute key (sequence of names) -> node
    clock,    \* the host clock, in whole seconds
    calls,    \* sequential client: its last call, after the one before it when kept
    pre,      \* sequential client: the file system when its last call began
    frames,   \* concurrent clients: one call frame per client
    mut       \* concurrent clients: who changed the file system since each call began

vars == <<fs, clock, calls, pre, frames, mut>>

----------------------------------------------------------------------------
(* Bounds of the model.                                                    *)

\* longest content argument drawn for write_file
MaxLen == 1
\* latest clock value the host reaches
MaxClock == 1

----------------------------------------------------------------------------
(* Characters and the program's string literals.                           *)

LF == "\n"
CR == "\r"
EAcute == "é"
\* a lone UTF-16 surrogate code point, U+D800, as a Python str may hold
Surrogate == "U+D800"

ErrorPrefix == <<"E", "r", "r", "o", "r", ":", " ">>
MsgFileNotFound == <<"F", "i", "l", "e", " ", "n", "o", "t", " ", "f", "o", "u", "n", "d", ":", " ">>
MsgNotAFile == <<"N", "o", "t", " ", "a", " ", "f", "i", "l", "e", ":", " ">>
MsgWrote == <<"S", "u", "c", "c", "e", "s", "s", "f", "u", "l", "l", "y", " ", "w", "r", "o", "t", "e", " ", "t", "o", " ">>
MsgDirNotFound == <<"D", "i", "r", "e", "c", "t", "o", "r", "y", " ", "n", "o", "t", " ", "f", "o", "u", "n", "d", ":", " ">>
MsgNotADir == <<"N", "o", "t", " ", "a", " ", "d", "i", "r", "e", "c", "t", "o", "r", "y", ":", " ">>
TagDir == <<"D", "I", "R">>
TagFile == <<"F", "I", "L", "E">>
MsgEmptyDir == <<"(", "e", "m", "p", "t", "y", " ", "d", "i", "r", "e", "c", "t", "o", "r", "y", ")">>
MsgCreated == <<"S", "u", "c", "c", "e", "s", "s", "f", "u", "l", "l", "y", " ", "c", "r", "e", "a", "t", "e", "d", " ", "d", "i", "r", "e", "c", "t", "o", "r", "y", ":", " ">>
MsgDeleted == <<"S", "u", "c", "c", "e", "s", "s", "f", "u", "l", "l", "y", " ", "d", "e", "l", "e", "t", "e", "d", ":", " ">>
MsgPathNotFound == <<"P", "a", "t", "h", " ", "n", "o", "t", " ", "f", "o", "u", "n", "d", ":", " ">>
LblPath == <<"P", "a", "t", "h", ":", " ">>
LblType == <<"T", "y", "p", "e", ":", " ">>
TypeDirectory == <<"D", "i", "r", "e", "c", "t", "o", "r", "y">>
TypeFile == <<"F", "i", "l", "e">>
LblSize == <<"S", "i", "z", "e", ":", " ">>
SfxBytes == <<" ", "b", "y", "t", "e", "s">>
LblModified == <<"M", "o", "d", "i", "f", "i", "e", "d", ":", " ">>
MsgUnknownTool == <<"U", "n", "k", "n", "o", "w", "n", " ", "t", "o", "o", "l", ":", " ">>
NameReadFile == <<"r", "e", "a", "d", "_", "f", "i", "l", "e">>
NameWriteFile == <<"w", "r", "i", "t", "e", "_", "f", "i", "l", "e">>
NameListDirectory == <<"l", "i", "s", "t", "_", "d", "i", "r", "e", "c", "t", "o", "r", "y">>
NameCreateDirectory == <<"c", "r", "e", "a", "t", "e", "_", "d", "i", "r", "e", "c", "t", "o", "r", "y">>
NameDeleteFile == <<"d", "e", "l", "e", "t", "e", "_", "f", "i", "l", "e">>
NameFileInfo == <<"f", "i", "l", "e", "_", "i", "n", "f", "o">>
NameUnknownXyz == <<"u", "n", "k", "n", "o", "w", "n", "_", "t", "o", "o", "l", "_", "x", "y", "z">>
NameRead == <<"r", "e", "a", "d">>
KeyPath == <<"p", "a", "t", "h">>
KeyContent == <<"c", "o", "n", "t", "e", "n", "t">>
StrENOENT == <<"[", "E", "r", "r", "n", "o", " ", "2", "]", " ", "N", "o", " ", "s", "u", "c", "h", " ", "f", "i", "l", "e", " ", "o", "r", " ", "d", "i", "r", "e", "c", "t", "o", "r", "y", ":", " ">>
StrENOTDIR == <<"[", "E", "r", "r", "n", "o", " ", "2", "0", "]", " ", "N", "o", "t", " ", "a", " ", "d", "i", "r", "e", "c", "t", "o", "r", "y", ":", " ">>
StrEISDIR == <<"[", "E", "r", "r", "n", "o", " ", "2", "1", "]", " ", "I", "s", " ", "a", " ", "d", "i", "r", "e", "c", "t", "o", "r", "y", ":", " ">>
StrEEXIST == <<"[", "E", "r", "r", "n", "o", " ", "1", "7", "]", " ", "F", "i", "l", "e", " ", "e", "x", "i", "s", "t", "s", ":", " ">>
StrEncodeA == <<"'", "u", "t", "f", "-", "8", "'", " ", "c", "o", "d", "e", "c", " ", "c", "a", "n", "'", "t", " ", "e", "n", "c", "o", "d", "e", " ", "c", "h", "a", "r", "a", "c", "t", "e", "r", " ", "'", "\\", "u", "d", "8", "0", "0", "'", " ", "i", "n", " ", "p", "o", "s", "i", "t", "i", "o", "n", " ">>
StrEncodeB == <<":", " ", "s", "u", "r", "r", "o", "g", "a", "t", "e", "s", " ", "n", "o", "t", " ", "a", "l", "l", "o", "w", "e", "d">>
StrDecodeA == <<"'", "u", "t", "f", "-", "8", "'", " ", "c", "o", "d", "e", "c", " ", "c", "a", "n", "'", "t", " ", "d", "e", "c", "o", "d", "e", " ", "b", "y", "t", "e", " ", "0", "x", "f", "f", " ", "i", "n", " ", "p", "o", "s", "i", "t", "i", "o", "n", " ">>
StrDecodeB == <<":", " ", "i", "n", "v", "a", "l", "i", "d", " ", "s", "t", "a", "r", "t", " ", "b", "y", "t", "e">>
PrintableAscii ==
    <<" ", "!", "\"", "#", "$", "%", "&", "'", "(", ")", "*", "+", ",", "-", ".", "/", "0", "1", "2", "3", "4", "5", "6", "7", "8", "9", ":", ";", "<", "=", ">", "?">>
    \o <<"@", "A", "B", "C", "D", "E", "F", "G", "H", "I", "J", "K", "L", "M", "N", "O", "P", "Q", "R", "S", "T", "U", "V", "W", "X", "Y", "Z", "[", "\\", "]", "^", "_">>
    \o <<"GRAVE", "a", "b", "c", "d", "e", "f", "g", "h", "i", "j", "k", "l", "m", "n", "o", "p", "q", "r", "s", "t", "u", "v", "w", "x", "y", "z", "{", "|", "}", "~">>

----------------------------------------------------------------------------
(* Sequences of characters.                                                *)

\* code point of a character (Python's ord)
Ord(c) ==
    CASE c = LF -> 10
      [] c = CR -> 13
      [] c = EAcute -> 233
      [] c = Surrogate -> 55296
      [] OTHER -> 31 + (CHOOSE i \in 1..Len(PrintableAscii) : PrintableAscii[i] = c)

\* the character with a code point (Python's chr), over the model's alphabet
Chr(n) ==
    CASE n = 10 -> LF
      [] n = 13 -> CR
      [] n = 233 -> EAcute
      [] OTHER -> PrintableAscii[n - 31]

\* str < str: lexicographic by code point
RECURSIVE StrLess(_, _)
StrLess(s, t) ==
    IF t = <<>> THEN FALSE
    ELSE IF s = <<>> THEN TRUE
    ELSE IF Head(s) = Head(t) THEN StrLess(Tail(s), Tail(t))
    ELSE Ord(Head(s)) < Ord(Head(t))

\* sep.join(parts)
RECURSIVE Join(_, _)
Join(parts, sep) ==
    IF parts = <<>> THEN <<>>
    ELSE IF Len(parts) = 1 THEN parts[1]
    ELSE parts[1] \o sep \o Join(Tail(parts), sep)

\* s.split(sep) for a one-character separator
Split(s, sep) ==
    LET at == {i \in 1..Len(s) : s[i] = sep}
        cut(k) == IF k = 0 THEN 0
                  ELSE IF k > Cardinality(at) THEN Len(s) + 1
                  ELSE CHOOSE i \in at : Cardinality({j \in at : j < i}) = k - 1
    IN  [k \in 1..(Cardinality(at) + 1) |-> SubSeq(s, cut(k - 1) + 1, cut(k) - 1)]

\* str(n) for a natural number
RECURSIVE Digits(_)
Digits(n) ==
    IF n < 10 THEN <<Chr(48 + n)>>
    ELSE Digits(n \div 10) \o <<Chr(48 + (n % 10))>>

\* str(float(n)) for a whole number of seconds
FloatStr(n) == Digits(n) \o <<".", "0">>

\* repr(s) of a str: quoted, with the line breaks escaped
RECURSIVE ReprBody(_)
ReprBody(s) ==
    IF s = <<>> THEN <<>>
    ELSE (CASE Head(s) = LF -> <<"\\", "n">>
            [] Head(s) = CR -> <<"\\", "r">>
            [] Head(s) = "'" -> <<"\\", "'">>
            [] Head(s) = "\\" -> <<"\\", "\\">>
            [] OTHER -> <<Head(s)>>) \o ReprBody(Tail(s))

Repr(s) == <<"'">> \o ReprBody(s) \o <<"'">>

\* whether text begins with prefix
StartsWith(text, prefix) ==
    /\ Len(text) >= Len(prefix)
    /\ SubSeq(text, 1, Len(prefix)) = prefix

\* the lines of a text: text.split("\n")
Lines(text) == Split(text, LF)

----------------------------------------------------------------------------
(* The UTF-8 codec and the newline translation of text-mode files.         *)

\* the bytes of one character, <<>> when it has no UTF-8 encoding
Utf8Char(c) ==
    LET n == Ord(c)
    IN  IF n < 128 THEN <<n>>
        ELSE IF n < 2048 THEN <<192 + (n \div 64), 128 + (n % 64)>>
        ELSE IF n >= 55296 /\ n < 57344 THEN <<>>
        ELSE <<224 + (n \div 4096), 128 + ((n \div 64) % 64), 128 + (n % 64)>>

\* str.encode("utf-8"): [ok, bytes] or [ok = FALSE, pos] at the first surrogate
RECURSIVE Utf8EncodeFrom(_, _)
Utf8EncodeFrom(text, i) ==
    IF i > Len(text) THEN [ok |-> TRUE, bytes |-> <<>>, pos |-> 0]
    ELSE IF Utf8Char(text[i]) = <<>> THEN [ok |-> FALSE, bytes |-> <<>>, pos |-> i - 1]
    ELSE LET rest == Utf8EncodeFrom(text, i + 1)
         IN  IF rest.ok
             THEN [ok |-> TRUE, bytes |-> Utf8Char(text[i]) \o rest.bytes, pos |-> 0]
             ELSE rest

Utf8Encode(text) == Utf8EncodeFrom(text, 1)

\* bytes.decode("utf-8"), for code points below U+0800
RECURSIVE Utf8DecodeFrom(_, _)
Utf8DecodeFrom(bytes, i) ==
    IF i > Len(bytes) THEN [ok |-> TRUE, text |-> <<>>, pos |-> 0]
    ELSE LET b == bytes[i]
             two == /\ b >= 194 /\ b < 224
                    /\ i < Len(bytes)
                    /\ bytes[i + 1] >= 128 /\ bytes[i + 1] < 192
         IN  IF b < 128
             THEN LET rest == Utf8DecodeFrom(bytes, i + 1)
                  IN  IF rest.ok
                      THEN [ok |-> TRUE, text |-> <<Chr(b)>> \o rest.text, pos |-> 0]
                      ELSE rest
             ELSE IF two
             THEN LET rest == Utf8DecodeFrom(bytes, i + 2)
                      c == Chr(((b - 192) * 64) + (bytes[i + 1] - 128))
                  IN  IF rest.ok
                      THEN [ok |-> TRUE, text |-> <<c>> \o rest.text, pos |-> 0]
                      ELSE rest
             ELSE [ok |-> FALSE, text |-> <<>>, pos |-> i - 1]

Utf8Decode(bytes) == Utf8DecodeFrom(bytes, 1)

\* os.linesep
LineSep == <<LF>>

\* writing in text mode with newline=None: "\n" becomes os.linesep
RECURSIVE TranslateOnWrite(_)
TranslateOnWrite(text) ==
    IF text = <<>> THEN <<>>
    ELSE (IF Head(text) = LF THEN LineSep ELSE <<Head(text)>>)
         \o TranslateOnWrite(Tail(text))

\* reading in text mode with newline=None (universal newlines):
\* "\r\n" and "\r" become "\n"
RECURSIVE TranslateOnRead(_)
TranslateOnRead(text) ==
    IF text = <<>> THEN <<>>
    ELSE IF Head(text) = CR
    THEN IF Len(text) >= 2 /\ text[2] = LF
         THEN <<LF>> \o TranslateOnRead(Tail(Tail(text)))
         ELSE <<LF>> \o TranslateOnRead(Tail(text))
    ELSE <<Head(text)>> \o TranslateOnRead(Tail(text))

----------------------------------------------------------------------------
(* pathlib.Path on POSIX: a root ("", "/" or "//") and the name parts.     *)

\* how many "/" a string starts with
RECURSIVE LeadingSlashes(_)
LeadingSlashes(s) ==
    IF s = <<>> \/ Head(s) # "/" THEN 0 ELSE 1 + LeadingSlashes(Tail(s))

\* the components of a split string that pathlib keeps: not "" and not "."
RECURSIVE KeptParts(_)
KeptParts(comps) ==
    IF comps = <<>> THEN <<>>
    ELSE IF Head(comps) = <<>> \/ Head(comps) = <<".">> THEN KeptParts(Tail(comps))
    ELSE <<Head(comps)>> \o KeptParts(Tail(comps))

\* Path(s)
ParsePath(s) ==
    [root  |-> CASE LeadingSlashes(s) = 0 -> <<>>
                 [] LeadingSlashes(s) = 2 -> <<"/", "/">>
                 [] OTHER -> <<"/">>,
     parts |-> KeptParts(Split(s, "/"))]

\* str(path)
PathStr(p) ==
    IF p.root = <<>> /\ p.parts = <<>> THEN <<".">>
    ELSE p.root \o Join(p.parts, <<"/">>)

\* path.parent
PathParent(p) ==
    IF p.parts = <<>> THEN p
    ELSE [p EXCEPT !.parts = SubSeq(p.parts, 1, Len(p.parts) - 1)]

\* path.name
PathName(p) == IF p.parts = <<>> THEN <<>> ELSE p.parts[Len(p.parts)]

\* path / name, as iterdir makes its entries
PathChild(p, name) == [p EXCEPT !.parts = p.parts \o <<name>>]

\* os.getcwd()
Cwd == [root |-> <<"/">>, parts |-> <<>>]

\* path.absolute(): the working directory put in front, nothing resolved
PathAbsolute(p) ==
    IF p.root # <<>> THEN p
    ELSE [root |-> Cwd.root, parts |-> Cwd.parts \o p.parts]

\* path < path: by the parts, the root first
RECURSIVE PartsLess(_, _)
PartsLess(a, b) ==
    IF b = <<>> THEN FALSE
    ELSE IF a = <<>> THEN TRUE
    ELSE IF Head(a) = Head(b) THEN PartsLess(Tail(a), Tail(b))
    ELSE StrLess(Head(a), Head(b))

PathLess(p, q) ==
    PartsLess((IF p.root = <<>> THEN <<>> ELSE <<p.root>>) \o p.parts,
              (IF q.root = <<>> THEN <<>> ELSE <<q.root>>) \o q.parts)

----------------------------------------------------------------------------
(* The host file system, as the calls of pathlib and os see it.            *)
(* fs maps the absolute key of every existing entry to its node; the root  *)
(* directory, key <<>>, always exists.                                     *)

\* st_size the host reports for a directory
DirSize == 4096

RootKey == <<>>

\* the key of the working directory
CwdKey == Cwd.parts

ParentKey(k) == IF k = <<>> THEN k ELSE SubSeq(k, 1, Len(k) - 1)

DirNode(now) == [kind |-> "dir", data |-> <<>>, mtime |-> now]

FileNode(bytes, now) == [kind |-> "file", data |-> bytes, mtime |-> now]

\* the names under a directory
ChildNames(f, k) ==
    {x[Len(x)] : x \in {y \in DOMAIN f : Len(y) = Len(k) + 1 /\ SubSeq(y, 1, Len(k)) = k}}

\* f with entry k set to node
PutNode(f, k, node) == [x \in (DOMAIN f) \cup {k} |-> IF x = k THEN node ELSE f[x]]

\* f without entry k
DropNode(f, k) == [x \in (DOMAIN f) \ {k} |-> f[x]]

\* f with the modification time of directory k set
TouchDir(f, k, now) == [f EXCEPT ![k].mtime = now]

\* the components the kernel walks: the empty ones between slashes dropped
RECURSIVE KernelParts(_)
KernelParts(comps) ==
    IF comps = <<>> THEN <<>>
    ELSE IF Head(comps) = <<>> THEN KernelParts(Tail(comps))
    ELSE <<Head(comps)>> \o KernelParts(Tail(comps))

\* path resolution from the existing entry cur: the entry found, the entry
\* that is missing as the last component, or the errno
RECURSIVE WalkFrom(_, _, _)
WalkFrom(f, cur, comps) ==
    IF comps = <<>> THEN [err |-> "", key |-> cur, found |-> TRUE]
    ELSE IF f[cur].kind # "dir" THEN [err |-> "ENOTDIR", key |-> cur, found |-> FALSE]
    ELSE IF Head(comps) = <<".">> THEN WalkFrom(f, cur, Tail(comps))
    ELSE IF Head(comps) = <<".", ".">> THEN WalkFrom(f, ParentKey(cur), Tail(comps))
    ELSE LET k == Append(cur, Head(comps))
         IN  IF k \in DOMAIN f THEN WalkFrom(f, k, Tail(comps))
             ELSE IF Len(comps) = 1 THEN [err |-> "", key |-> k, found |-> FALSE]
             ELSE [err |-> "ENOENT", key |-> k, found |-> FALSE]

Walk(f, s) ==
    IF s = <<>> THEN [err |-> "ENOENT", key |-> RootKey, found |-> FALSE]
    ELSE WalkFrom(f, IF Head(s) = "/" THEN RootKey ELSE CwdKey, KernelParts(Split(s, "/")))

\* the OSError subclass and the text Python gives an errno
OsError(errno, s, f) ==
    [exc |-> CASE errno = "ENOENT" -> "FileNotFoundError"
               [] errno = "ENOTDIR" -> "NotADirectoryError"
               [] errno = "EISDIR" -> "IsADirectoryError"
               [] errno = "EEXIST" -> "FileExistsError",
     msg |-> (CASE errno = "ENOENT" -> StrENOENT
                [] errno = "ENOTDIR" -> StrENOTDIR
                [] errno = "EISDIR" -> StrEISDIR
                [] errno = "EEXIST" -> StrEEXIST) \o Repr(s),
     fs  |-> f,
     val |-> <<>>]

Ok(f, v) == [exc |-> "", msg |-> <<>>, fs |-> f, val |-> v]

\* os.stat(s)
OsStat(f, s) ==
    LET w == Walk(f, s)
    IN  IF w.err # "" THEN OsError(w.err, s, f)
        ELSE IF ~w.found THEN OsError("ENOENT", s, f)
        ELSE Ok(f, [kind  |-> f[w.key].kind,
                    size  |-> IF f[w.key].kind = "dir" THEN DirSize
                              ELSE Len(f[w.key].data),
                    mtime |-> f[w.key].mtime])

\* path.exists(): stat, with ENOENT and ENOTDIR read as "no"
PathExists(f, p) == OsStat(f, PathStr(p)).exc = ""

\* path.is_file()
PathIsFile(f, p) ==
    LET r == OsStat(f, PathStr(p)) IN r.exc = "" /\ r.val.kind = "file"

\* path.is_dir()
PathIsDir(f, p) ==
    LET r == OsStat(f, PathStr(p)) IN r.exc = "" /\ r.val.kind = "dir"

\* os.mkdir(s)
OsMkdir(f, now, s) ==
    LET w == Walk(f, s)
    IN  IF w.err # "" THEN OsError(w.err, s, f)
        ELSE IF w.found THEN OsError("EEXIST", s, f)
        ELSE Ok(TouchDir(PutNode(f, w.key, DirNode(now)), ParentKey(w.key), now), <<>>)

\* os.unlink(s)
OsUnlink(f, now, s) ==
    LET w == Walk(f, s)
    IN  IF w.err # "" THEN OsError(w.err, s, f)
        ELSE IF ~w.found THEN OsError("ENOENT", s, f)
        ELSE IF f[w.key].kind = "dir" THEN OsError("EISDIR", s, f)
        ELSE Ok(TouchDir(DropNode(f, w.key), ParentKey(w.key), now), <<>>)

\* os.listdir(s): the names, in no order
OsListdir(f, s) ==
    LET w == Walk(f, s)
    IN  IF w.err # "" THEN OsError(w.err, s, f)
        ELSE IF ~w.found THEN OsError("ENOENT", s, f)
        ELSE IF f[w.key].kind # "dir" THEN OsError("ENOTDIR", s, f)
        ELSE Ok(f, ChildNames(f, w.key))

\* path.write_text(text, encoding="utf-8"): open for writing, which creates
\* or empties the file, then encode and write
WriteText(f, now, s, text) ==
    LET w == Walk(f, s)
        opened == IF w.found THEN PutNode(f, w.key, FileNode(<<>>, now))
                  ELSE TouchDir(PutNode(f, w.key, FileNode(<<>>, now)),
                                ParentKey(w.key), now)
        enc == Utf8Encode(TranslateOnWrite(text))
    IN  IF w.err # "" THEN OsError(w.err, s, f)
        ELSE IF w.found /\ f[w.key].kind = "dir" THEN OsError("EISDIR", s, f)
        ELSE IF ~enc.ok
        THEN [exc |-> "UnicodeEncodeError",
              msg |-> StrEncodeA \o Digits(enc.pos) \o StrEncodeB,
              fs  |-> opened,
              val |-> <<>>]
        ELSE Ok(PutNode(opened, w.key, FileNode(enc.bytes, now)), Len(text))

\* path.read_text(encoding="utf-8"): open for reading, decode, translate
ReadText(f, s) ==
    LET w == Walk(f, s)
        dec == Utf8Decode(f[w.key].data)
    IN  IF w.err # "" THEN OsError(w.err, s, f)
        ELSE IF ~w.found THEN OsError("ENOENT", s, f)
        ELSE IF f[w.key].kind = "dir" THEN OsError("EISDIR", s, f)
        ELSE IF ~dec.ok
        THEN [exc |-> "UnicodeDecodeError",
              msg |-> StrDecodeA \o Digits(dec.pos) \o StrDecodeB,
              fs  |-> f,
              val |-> <<>>]
        ELSE Ok(f, TranslateOnRead(dec.text))

\* a set of paths as a sequence, in some order
RECURSIVE SetToSeq(_)
SetToSeq(S) ==
    IF S = {} THEN <<>>
    ELSE LET x == CHOOSE y \in S : TRUE IN <<x>> \o SetToSeq(S \ {x})

\* the entries sorted with reverse=True
SortedEntriesReversed(p, names) ==
    SortSeq(SetToSeq({PathChild(p, n) : n \in names}), LAMBDA x, y : PathLess(y, x))

\* sorted(path.iterdir()), given the names os.listdir returned
SortedEntries(p, names) == SortSeq(SetToSeq({PathChild(p, n) : n \in names}), PathLess)

----------------------------------------------------------------------------
(* list_tools: the catalog.                                                *)

\* the names of the descriptors list_tools returns, in its order
ListTools ==
    <<NameReadFile, NameWriteFile, NameListDirectory,
      NameCreateDirectory, NameDeleteFile, NameFileInfo>>

----------------------------------------------------------------------------
(* call_tool.  A call is a frame that advances one host call at a time;    *)
(* pc names the host call the frame is about to make.                      *)

\* the base class of each exception class the calls can raise
BaseClass(cls) ==
    CASE cls = "KeyError" -> "LookupError"
      [] cls = "LookupError" -> "Exception"
      [] cls \in {"FileNotFoundError", "NotADirectoryError",
                  "IsADirectoryError", "FileExistsError"} -> "OSError"
      [] cls = "OSError" -> "Exception"
      [] cls \in {"UnicodeEncodeError", "UnicodeDecodeError"} -> "UnicodeError"
      [] cls = "UnicodeError" -> "ValueError"
      [] cls = "ValueError" -> "Exception"
      [] cls = "Exception" -> "BaseException"
      [] OTHER -> "object"

RECURSIVE IsSubclass(_, _)
IsSubclass(cls, base) ==
    \/ cls = base
    \/ cls \notin {"BaseException", "object"} /\ IsSubclass(BaseClass(cls), base)

\* except OSError in place of except Exception
CatchesOSError(exc) == IsSubclass(exc, "OSError")

\* except Exception
Catches(exc) == IsSubclass(exc, "Exception")

NoPath == [root |-> <<>>, parts |-> <<>>]

\* the frame of a call that has not started
NewFrame(name, args) ==
    [pc      |-> "begin",
     name    |-> name,
     args    |-> args,
     path    |-> NoPath,   \* path
     target  |-> NoPath,   \* mkdir: self
     parents |-> FALSE,    \* mkdir: parents
     stack   |-> <<>>,     \* mkdir: the callers waiting for their parent
     pend    |-> [exc |-> "", msg |-> <<>>],  \* mkdir: the OSError in hand
     todo    |-> <<>>,     \* list_directory: entries still to classify
     entries |-> <<>>,     \* list_directory: entries
     stat    |-> [size |-> 0, mtime |-> 0],   \* file_info: stat
     out     |-> <<>>,     \* the text blocks returned
     esc     |-> "",       \* the exception that left call_tool, if one did
     site    |-> ""]       \* which return statement ended the call

\* return [TextContent(type="text", text=text)]
Return(fr, site, text) == [fr EXCEPT !.pc = "done", !.out = <<text>>, !.site = site]

\* except Exception as e: return [TextContent(type="text", text=f"Error: {str(e)}")]
ErrorText(msg) == ErrorPrefix \o msg

\* an exception raised inside the try block
Raise(fr, exc, msg) ==
    IF Catches(exc) THEN Return(fr, "fault", ErrorText(msg))
    ELSE [fr EXCEPT !.pc = "done", !.esc = exc, !.site = "escaped"]

\* str(KeyError(key))
KeyErrorText(key) == Repr(key)

\* call_tool without its file_info branch
BranchNoFileInfo(name) ==
    CASE name = NameReadFile -> "read_file"
      [] name = NameWriteFile -> "write_file"
      [] name = NameListDirectory -> "list_directory"
      [] name = NameCreateDirectory -> "create_directory"
      [] name = NameDeleteFile -> "delete_file"
      [] OTHER -> "else"

\* the branch of call_tool a name selects
Branch(name) ==
    CASE name = NameReadFile -> "read_file"
      [] name = NameWriteFile -> "write_file"
      [] name = NameListDirectory -> "list_directory"
      [] name = NameCreateDirectory -> "create_directory"
      [] name = NameDeleteFile -> "delete_file"
      [] name = NameFileInfo -> "file_info"
      [] OTHER -> "else"

\* the entry of call_tool: the branch, and its reads of the arguments
Begin(fr) ==
    LET b == Branch(fr.name)
        a == fr.args
        p == ParsePath(a["path"])
    IN  IF b = "else" THEN Return(fr, "unknown_tool", ErrorText(MsgUnknownTool \o fr.name))
        ELSE IF "path" \notin DOMAIN a THEN Raise(fr, "KeyError", KeyErrorText(KeyPath))
        ELSE IF b = "write_file"
        THEN IF "content" \notin DOMAIN a
             THEN Raise(fr, "KeyError", KeyErrorText(KeyContent))
             ELSE [fr EXCEPT !.pc = "mkdir", !.path = p,
                             !.target = PathParent(p), !.parents = TRUE]
        ELSE IF b = "create_directory"
        THEN [fr EXCEPT !.pc = "mkdir", !.path = p, !.target = p, !.parents = TRUE]
        ELSE [fr EXCEPT !.pc = "exists", !.path = p]

\* the branches without their path.exists() check
StepExistsSkipped(f, fr) ==
    LET b == Branch(fr.name)
    IN  [fr EXCEPT !.pc = CASE b = "read_file" -> "is_file"
                            [] b = "delete_file" -> "is_file"
                            [] b = "list_directory" -> "is_dir"
                            [] b = "file_info" -> "stat"]

\* path.exists() in read_file, list_directory, delete_file and file_info
StepExists(f, fr) ==
    LET b == Branch(fr.name)
        s == PathStr(fr.path)
    IN  IF PathExists(f, fr.path)
        THEN [fr EXCEPT !.pc = CASE b = "read_file" -> "is_file"
                                 [] b = "delete_file" -> "is_file"
                                 [] b = "list_directory" -> "is_dir"
                                 [] b = "file_info" -> "stat"]
        ELSE Return(fr, "not_found",
                    ErrorText((CASE b = "read_file" -> MsgFileNotFound
                                 [] b = "delete_file" -> MsgFileNotFound
                                 [] b = "list_directory" -> MsgDirNotFound
                                 [] b = "file_info" -> MsgPathNotFound) \o s))

\* read_file and delete_file without their path.is_file() check
StepIsFileSkipped(f, fr) ==
    [fr EXCEPT !.pc = IF Branch(fr.name) = "read_file" THEN "read_text" ELSE "unlink"]

\* path.is_file() in read_file and delete_file
StepIsFile(f, fr) ==
    IF PathIsFile(f, fr.path)
    THEN [fr EXCEPT !.pc = IF Branch(fr.name) = "read_file" THEN "read_text" ELSE "unlink"]
    ELSE Return(fr, "wrong_kind", ErrorText(MsgNotAFile \o PathStr(fr.path)))

\* path.read_text(encoding="utf-8") in read_file
StepReadText(f, fr) ==
    LET r == ReadText(f, PathStr(fr.path))
    IN  IF r.exc # "" THEN Raise(fr, r.exc, r.msg) ELSE Return(fr, "ok", r.val)

\* mkdir returns: to the caller waiting in Path.mkdir, or to call_tool
MkdirReturn(fr) ==
    IF fr.stack # <<>>
    THEN [fr EXCEPT !.pc = "mkdir", !.target = Head(fr.stack), !.parents = FALSE,
                    !.stack = Tail(fr.stack)]
    ELSE IF Branch(fr.name) = "write_file" THEN [fr EXCEPT !.pc = "write_text"]
    ELSE Return(fr, "ok", MsgCreated \o PathStr(fr.path))

\* os.mkdir(self) in Path.mkdir(parents, exist_ok=True)
StepMkdir(f, now, fr) ==
    LET r == OsMkdir(f, now, PathStr(fr.target))
    IN  IF r.exc = "" THEN [fs |-> r.fs, fr |-> MkdirReturn(fr)]
        ELSE IF r.exc = "FileNotFoundError"
        THEN IF ~fr.parents \/ PathParent(fr.target) = fr.target
             THEN [fs |-> f, fr |-> Raise(fr, r.exc, r.msg)]
             ELSE [fs |-> f,
                   fr |-> [fr EXCEPT !.target = PathParent(fr.target),
                                     !.parents = TRUE,
                                     !.stack = <<fr.target>> \o fr.stack]]
        ELSE [fs |-> f,
              fr |-> [fr EXCEPT !.pc = "mkdir_is_dir",
                                !.pend = [exc |-> r.exc, msg |-> r.msg]]]

\* mkdir with exist_ok=False: the OSError is raised again
StepMkdirIsDirNotOk(f, fr) == Raise(fr, fr.pend.exc, fr.pend.msg)

\* except OSError: if not exist_ok or not self.is_dir(): raise
StepMkdirIsDir(f, fr) ==
    IF PathIsDir(f, fr.target) THEN MkdirReturn(fr)
    ELSE Raise(fr, fr.pend.exc, fr.pend.msg)

\* path.write_text(content, encoding="utf-8") in write_file
StepWriteText(f, now, fr) ==
    LET r == WriteText(f, now, PathStr(fr.path), fr.args["content"])
    IN  [fs |-> r.fs,
         fr |-> IF r.exc # "" THEN Raise(fr, r.exc, r.msg)
                ELSE Return(fr, "ok", MsgWrote \o PathStr(fr.path))]

\* path.is_dir() in list_directory
StepIsDir(f, fr) ==
    IF PathIsDir(f, fr.path) THEN [fr EXCEPT !.pc = "listdir"]
    ELSE Return(fr, "wrong_kind", ErrorText(MsgNotADir \o PathStr(fr.path)))

\* result = "\n".join(entries) if entries else "(empty directory)"
ListResult(entries) == IF entries # <<>> THEN Join(entries, <<LF>>) ELSE MsgEmptyDir

\* sorted(path.iterdir()) in list_directory
StepListdir(f, fr) ==
    LET r == OsListdir(f, PathStr(fr.path))
    IN  IF r.exc # "" THEN Raise(fr, r.exc, r.msg)
        ELSE IF r.val = {} THEN Return(fr, "ok", ListResult(<<>>))
        ELSE [fr EXCEPT !.pc = "entry_is_dir", !.todo = SortedEntries(fr.path, r.val)]

\* f"[{entry_type}] {entry.name}"
EntryLine(isDir, entry) ==
    <<"[">> \o (IF isDir THEN TagDir ELSE TagFile) \o <<"]", " ">> \o PathName(entry)

\* entry.is_dir() for the next entry of the loop of list_directory
StepEntryIsDir(f, fr) ==
    LET entry == Head(fr.todo)
        lines == Append(fr.entries, EntryLine(PathIsDir(f, entry), entry))
    IN  IF Tail(fr.todo) = <<>> THEN Return([fr EXCEPT !.entries = lines, !.todo = <<>>],
                                            "ok", ListResult(lines))
        ELSE [fr EXCEPT !.entries = lines, !.todo = Tail(fr.todo)]

\* path.unlink(missing_ok=True)
StepUnlinkMissingOk(f, now, fr) ==
    LET r == OsUnlink(f, now, PathStr(fr.path))
    IN  [fs |-> r.fs,
         fr |-> IF r.exc # "" /\ r.exc # "FileNotFoundError" THEN Raise(fr, r.exc, r.msg)
                ELSE Return(fr, "ok", MsgDeleted \o PathStr(fr.path))]

\* path.unlink() in delete_file
StepUnlink(f, now, fr) ==
    LET r == OsUnlink(f, now, PathStr(fr.path))
    IN  [fs |-> r.fs,
         fr |-> IF r.exc # "" THEN Raise(fr, r.exc, r.msg)
                ELSE Return(fr, "ok", MsgDeleted \o PathStr(fr.path))]

\* stat = path.stat() in file_info
StepStat(f, fr) ==
    LET r == OsStat(f, PathStr(fr.path))
    IN  IF r.exc # "" THEN Raise(fr, r.exc, r.msg)
        ELSE [fr EXCEPT !.pc = "info_is_dir",
                        !.stat = [size |-> r.val.size, mtime |-> r.val.mtime]]

\* the lines of file_info with the Size line ahead of the Type line
InfoLinesSizeFirst(p, isDir, st) ==
    <<LblPath \o PathStr(PathAbsolute(p)),
      LblSize \o Digits(st.size) \o SfxBytes,
      LblType \o (IF isDir THEN TypeDirectory ELSE TypeFile),
      LblModified \o FloatStr(st.mtime)>>

\* the four lines of file_info
InfoLines(p, isDir, st) ==
    <<LblPath \o PathStr(PathAbsolute(p)),
      LblType \o (IF isDir THEN TypeDirectory ELSE TypeFile),
      LblSize \o Digits(st.size) \o SfxBytes,
      LblModified \o FloatStr(st.mtime)>>

\* path.is_dir() in file_info, and the text it returns
StepInfoIsDir(f, fr) ==
    Return(fr, "ok", Join(InfoLines(fr.path, PathIsDir(f, fr.path), fr.stat), <<LF>>))

\* one step of a call: up to and including its next host call
Step(f, now, fr) ==
    CASE fr.pc = "begin" -> [fs |-> f, fr |-> Begin(fr)]
      [] fr.pc = "exists" -> [fs |-> f, fr |-> StepExists(f, fr)]
      [] fr.pc = "is_file" -> [fs |-> f, fr |-> StepIsFile(f, fr)]
      [] fr.pc = "read_text" -> [fs |-> f, fr |-> StepReadText(f, fr)]
      [] fr.pc = "mkdir" -> StepMkdir(f, now, fr)
      [] fr.pc = "mkdir_is_dir" -> [fs |-> f, fr |-> StepMkdirIsDir(f, fr)]
      [] fr.pc = "write_text" -> StepWriteText(f, now, fr)
      [] fr.pc = "is_dir" -> [fs |-> f, fr |-> StepIsDir(f, fr)]
      [] fr.pc = "listdir" -> [fs |-> f, fr |-> StepListdir(f, fr)]
      [] fr.pc = "entry_is_dir" -> [fs |-> f, fr |-> StepEntryIsDir(f, fr)]
      [] fr.pc = "unlink" -> StepUnlink(f, now, fr)
      [] fr.pc = "stat" -> [fs |-> f, fr |-> StepStat(f, fr)]
      [] fr.pc = "info_is_dir" -> [fs |-> f, fr |-> StepInfoIsDir(f, fr)]

\* a call run from a frame to its end with no other call in between
RECURSIVE Run(_, _, _)
Run(f, now, fr) ==
    IF fr.pc = "done" THEN [fs |-> f, fr |-> fr]
    ELSE LET n == Step(f, now, fr) IN Run(n.fs, now, n.fr)

\* call_tool(name, arguments) on file system f
CallTool(f, now, name, args) == Run(f, now, NewFrame(name, args))

----------------------------------------------------------------------------
(* The requests the clients draw.                                          *)

\* the path arguments: plain, nested, with a trailing slash, with a "."
\* component, the working directory, through "..", and a name that is a
\* line break
PathArgs ==
    {<<"a">>, <<"b">>, <<"a", "/", "b">>, <<"a", "/">>, <<".", "/", "b">>,
     <<".">>, <<"a", "/", ".", ".">>, <<LF>>}

\* the characters of the content arguments
ContentChars == {EAcute, CR, Surrogate}

\* the sequences over S of length at most n
BoundedSeq(S, n) == UNION {[1..k -> S] : k \in 0..n}

\* the content arguments; one is a text the dispatcher itself may return
Contents ==
    BoundedSeq(ContentChars, MaxLen) \cup {ErrorText(MsgUnknownTool \o NameReadFile)}

\* the tool names: the catalog's, and two names that are not in it
ToolNames == {ListTools[i] : i \in 1..Len(ListTools)} \cup {NameUnknownXyz, NameRead}

NoArgs == [k \in {} |-> <<>>]

PathOnly(p) == [k \in {"path"} |-> p]

PathAndContent(p, c) == [k \in {"path", "content"} |-> IF k = "path" THEN p ELSE c]

\* the argument mappings drawn for a tool name
ArgMaps(name) ==
    {NoArgs} \cup {PathOnly(p) : p \in PathArgs}
    \cup (IF name = NameWriteFile
          THEN {PathAndContent(p, c) : p \in PathArgs, c \in Contents}
          ELSE {})

Requests == UNION {{[name |-> n, args |-> a] : a \in ArgMaps(n)} : n \in ToolNames}

----------------------------------------------------------------------------
(* The sequential client: one call at a time, each run to its end.         *)

\* the file system the server starts on: the root directory, and a file
\* "b" that some other program left there and that is not UTF-8
InitialFs ==
    [k \in {RootKey, <<<<"b">>>>} |->
        IF k = RootKey THEN DirNode(0) ELSE FileNode(<<255>>, 0)]

\* what the client keeps of a finished call
CallRecord(r, fr) ==
    [req |-> r, res |-> [out |-> fr.out, esc |-> fr.esc, site |-> fr.site]]

\* call_tool(r.name, r.args), by a client that holds no earlier call
Dispatch(r) ==
    /\ calls = <<>>
    /\ LET x == CallTool(fs, clock, r.name, r.args)
       IN  /\ fs' = x.fs
           /\ pre' = fs
           /\ calls' = <<CallRecord(r, x.fr)>>
    /\ UNCHANGED <<clock, frames, mut>>

\* the requests a client is followed through after request r: r again, and
\* after a write_file the read_file and the file_info of the same path
FollowUps(r) ==
    {r} \cup (IF r.name = NameWriteFile /\ "path" \in DOMAIN r.args
              THEN {[name |-> n, args |-> PathOnly(r.args["path"])] :
                        n \in {NameReadFile, NameFileInfo}}
              ELSE {})

\* call_tool(r.name, r.args) right after the last call, the client keeping both
DispatchNext(r) ==
    /\ Len(calls) = 1
    /\ r \in FollowUps(calls[1].req)
    /\ LET x == CallTool(fs, clock, r.name, r.args)
       IN  /\ fs' = x.fs
           /\ pre' = fs
           /\ calls' = <<calls[1], CallRecord(r, x.fr)>>
    /\ UNCHANGED <<clock, frames, mut>>

\* the client drops the calls it holds; the server keeps nothing of them
Forget ==
    /\ calls # <<>>
    /\ calls' = <<>>
    /\ pre' = fs
    /\ UNCHANGED <<fs, clock, frames, mut>>

\* the host clock advances
Tick ==
    /\ clock < MaxClock
    /\ clock' = clock + 1
    /\ UNCHANGED <<fs, calls, pre, frames, mut>>

----------------------------------------------------------------------------
(* Concurrent clients: the calls advance one host call at a time, in any   *)
(* order.                                                                  *)

Clients == {"c1", "c2"}

\* the requests the concurrent clients draw
ConcRequests ==
    {[name |-> NameDeleteFile, args |-> PathOnly(<<"a">>)],
     [name |-> NameReadFile, args |-> PathOnly(<<"a">>)],
     [name |-> NameWriteFile, args |-> PathAndContent(<<"a">>, <<EAcute>>)],
     [name |-> NameWriteFile, args |-> PathAndContent(<<"a", "/", "b">>, <<>>)],
     [name |-> NameCreateDirectory, args |-> PathOnly(<<"a", "/", "b">>)],
     [name |-> NameListDirectory, args |-> PathOnly(<<".">>)],
     [name |-> NameFileInfo, args |-> PathOnly(<<"a">>)],
     [name |-> NameDeleteFile, args |-> NoArgs],
     [name |-> NameRead, args |-> NoArgs]}

\* the frame of a client that has no call
IdleFrame == [NewFrame(<<>>, NoArgs) EXCEPT !.pc = "idle"]

\* what is remembered about a client's call: whether its path was a regular
\* file when the call began, the clients whose running calls have changed the
\* file system since, and whether a call that has since returned did
NoNote == [wasFile |-> FALSE, others |-> {}, stale |-> FALSE]

\* client c calls call_tool(r.name, r.args)
Start(c, r) ==
    /\ frames[c].pc \in {"idle", "done"}
    /\ LET fr == Begin(NewFrame(r.name, r.args))
       IN  /\ frames' = [frames EXCEPT ![c] = fr]
           /\ mut' = [d \in Clients |->
                        IF d = c
                        THEN [wasFile |-> /\ "path" \in DOMAIN r.args
                                          /\ PathIsFile(fs, fr.path),
                              others  |-> {},
                              stale   |-> FALSE]
                        ELSE [mut[d] EXCEPT !.others = @ \ {c},
                                            !.stale = @ \/ c \in mut[d].others]]
    /\ UNCHANGED <<fs, clock, calls, pre>>

\* the call of client c makes its next host call
Advance(c) ==
    /\ frames[c].pc \notin {"idle", "done"}
    /\ LET n == Step(fs, clock, frames[c])
       IN  /\ fs' = n.fs
           /\ frames' = [frames EXCEPT ![c] = n.fr]
           /\ mut' = IF n.fs = fs THEN mut
                     ELSE [d \in Clients |->
                             IF d = c THEN mut[d]
                             ELSE [mut[d] EXCEPT !.others = @ \cup {c}]]
    /\ UNCHANGED <<clock, calls, pre>>

NextConc ==
    \/ \E c \in Clients : \E r \in ConcRequests : Start(c, r)
    \/ \E c \in Clients : Advance(c)

Init ==
    /\ fs = InitialFs
    /\ clock = 0
    /\ calls = <<>>
    /\ pre = InitialFs
    /\ frames = [c \in Clients |-> IdleFrame]
    /\ mut = [c \in Clients |-> NoNote]

Next ==
    \/ \E r \in Requests : Dispatch(r)
    \/ (Len(calls) = 1 /\ \E r \in FollowUps(calls[1].req) : DispatchNext(r))
    \/ Forget

Spec == Init /\ [][Next]_vars

\* the requests drawn while the clock runs: writes, deletions and file_info
\* on a plain name and on the name that is a line break
TickRequests ==
    {r \in Requests :
        /\ r.name \in {NameWriteFile, NameDeleteFile, NameFileInfo}
        /\ "path" \in DOMAIN r.args => r.args["path"] \in {<<"a">>, <<LF>>}}

NextTick ==
    \/ \E r \in TickRequests : Dispatch(r)
    \/ (Len(calls) = 1 /\ \E r \in FollowUps(calls[1].req) : DispatchNext(r))
    \/ Forget
    \/ Tick

SpecTick == Init /\ [][NextTick]_vars

SpecConc == Init /\ [][NextConc]_vars
----------------------------------------------------------------------------
(* Properties of the sequential client's calls.                            *)

\* the client's last call
Last == calls[Len(calls)]

\* the names in the catalog
Catalog == {ListTools[i] : i \in 1..Len(ListTools)}

HasPath(r) == "path" \in DOMAIN r.args

\* Path(arguments["path"]) of a request
ArgPath(r) == ParsePath(r.args["path"])

\* the text of a call's one block
TextOf(c) == c.res.out[1]

\* C1: every call, whatever the name, the argument mapping and the file
\* system, returns exactly one text block and lets no exception out; the
\* text of a call that did not end at a success return begins with "Error: ".
C1_OneBlockNeverFails ==
    \A i \in 1..Len(calls) :
        /\ Len(calls[i].res.out) = 1
        /\ calls[i].res.esc = ""
        /\ calls[i].res.site # "ok" => StartsWith(TextOf(calls[i]), ErrorPrefix)

\* a write_file call without content, ended by the generic handler
C1_Witness ==
    /\ calls # <<>>
    /\ Last.req.name = NameWriteFile
    /\ HasPath(Last.req) /\ "content" \notin DOMAIN Last.req.args
    /\ Last.res.site = "fault"
    /\ TextOf(Last) = ErrorPrefix \o Repr(KeyContent)

\* C2: a write_file of content C to path P that succeeded, followed at once
\* by read_file of P, returns exactly C.
C2_RoundTrip ==
    (/\ Len(calls) = 2
     /\ calls[1].req.name = NameWriteFile
     /\ calls[1].res.site = "ok"
     /\ calls[2].req = [name |-> NameReadFile,
                        args |-> PathOnly(calls[1].req.args["path"])])
    => calls[2].res.out = <<calls[1].req.args["content"]>>

\* two successive create_directory calls with the same path argument
TwoCreates ==
    /\ Len(calls) = 2
    /\ calls[1].req.name = NameCreateDirectory
    /\ HasPath(calls[1].req)
    /\ calls[2].req = calls[1].req

DeleteOfDirectory ==
    /\ calls # <<>>
    /\ Last.req.name = NameDeleteFile
    /\ HasPath(Last.req)
    /\ PathIsDir(pre, ArgPath(Last.req))

ReadOfMissing ==
    /\ calls # <<>>
    /\ Last.req.name = NameReadFile
    /\ HasPath(Last.req)
    /\ ~PathExists(pre, ArgPath(Last.req))

UnknownToolText(name) == ErrorPrefix \o MsgUnknownTool \o name

\* C6 as stated: a call returns "Error: Unknown tool: <name>" exactly when
\* its name is not in the catalog, and no catalog name is ever answered
\* with an unknown-tool text.
C6_AsStated ==
    \A i \in 1..Len(calls) :
        /\ TextOf(calls[i]) = UnknownToolText(calls[i].req.name)
               <=> calls[i].req.name \notin Catalog
        /\ calls[i].req.name \in Catalog =>
               \A n \in ToolNames : TextOf(calls[i]) # UnknownToolText(n)

\* C6, amended: the catalog lists the six names once each, and they are
\* the names call_tool has a branch for; a call ends at the unknown-tool
\* return, with "Error: Unknown tool: <name>", exactly when its name is not
\* in the catalog, whatever the arguments; a catalog name is answered with
\* such a text only by read_file, as the content of the file it read.
C6_UnknownTool ==
    /\ Len(ListTools) = 6 /\ Cardinality(Catalog) = 6
    /\ \A n \in ToolNames : Branch(n) = "else" <=> n \notin Catalog
    /\ \A i \in 1..Len(calls) :
        LET c == calls[i]
        IN  /\ c.req.name \notin Catalog =>
                /\ c.res.site = "unknown_tool"
                /\ c.res.out = <<UnknownToolText(c.req.name)>>
            /\ c.req.name \in Catalog =>
                /\ c.res.site # "unknown_tool"
                /\ (\E n \in ToolNames : TextOf(c) = UnknownToolText(n)) =>
                       /\ c.req.name = NameReadFile
                       /\ c.res.site = "ok"
                       /\ i = Len(calls) =>
                              TextOf(c) = ReadText(pre, PathStr(ArgPath(c.req))).val

\* the unknown name of the spec's example, with the empty argument mapping
C6_Witness ==
    /\ calls # <<>>
    /\ Last.req = [name |-> NameUnknownXyz, args |-> NoArgs]
    /\ Last.res.out = <<UnknownToolText(NameUnknownXyz)>>

\* a write_file that succeeded, followed at once by file_info of the path
WriteThenInfo ==
    /\ Len(calls) = 2
    /\ calls[1].req.name = NameWriteFile
    /\ calls[1].res.site = "ok"
    /\ calls[2].req = [name |-> NameFileInfo,
                       args |-> PathOnly(calls[1].req.args["path"])]

\* two successive file_info calls with the same path argument
TwoInfos ==
    /\ Len(calls) = 2
    /\ calls[1].req.name = NameFileInfo
    /\ calls[2].req = calls[1].req

\* the Path, Type, Size and Modified lines of a file written with content
FourLines(text, content) ==
    LET L == Lines(text)
    IN  /\ Len(L) = 4
        /\ StartsWith(L[1], LblPath)
        /\ L[2] = LblType \o TypeFile
        /\ L[3] = LblSize \o Digits(Len(Utf8Encode(content).bytes)) \o SfxBytes
        /\ StartsWith(L[4], LblModified) /\ Len(L[4]) > Len(LblModified)

ListOfDirectory ==
    /\ calls # <<>>
    /\ Last.req.name = NameListDirectory
    /\ HasPath(Last.req)
    /\ PathIsDir(pre, ArgPath(Last.req))

\* the key of the directory a list_directory call listed
ListedKey == Walk(pre, PathStr(ArgPath(Last.req))).key

\* the names in set S, ascending by code point
Ascending(S) ==
    CHOOSE q \in [1..Cardinality(S) -> S] :
        \A i, j \in 1..Cardinality(S) : i < j => StrLess(q[i], q[j])

\* "[DIR] <name>" for a directory of the listed directory, else "[FILE] <name>"
LineOf(name) ==
    (IF pre[Append(ListedKey, name)].kind = "dir"
     THEN <<"[", "D", "I", "R", "]", " ">>
     ELSE <<"[", "F", "I", "L", "E", "]", " ">>) \o name

\* C8 as stated: list_directory of a directory returns "(empty directory)"
\* exactly when it has no children; otherwise its text has exactly one line
\* per child, ascending by name, "[DIR] <name>" or "[FILE] <name>".
C8_AsStated ==
    ListOfDirectory =>
        LET names == ChildNames(pre, ListedKey)
            q == Ascending(names)
        IN  /\ TextOf(Last) = MsgEmptyDir <=> names = {}
            /\ names # {} =>
                 /\ Len(Lines(TextOf(Last))) = Cardinality(names)
                 /\ \A i \in 1..Cardinality(names) :
                        Lines(TextOf(Last))[i] = LineOf(q[i])

\* C8, amended: the text is "(empty directory)" exactly when the directory
\* has no children; otherwise it is the children's "[DIR] <name>" or
\* "[FILE] <name>", one per child, ascending by name, joined by line
\* breaks; that is one line per child when no name holds a line break.
C8_Listing ==
    ListOfDirectory =>
        LET names == ChildNames(pre, ListedKey)
            q == Ascending(names)
        IN  /\ Last.res.site = "ok"
            /\ fs = pre
            /\ TextOf(Last) = MsgEmptyDir <=> names = {}
            /\ names # {} =>
                 /\ TextOf(Last) = Join([i \in 1..Cardinality(names) |-> LineOf(q[i])],
                                        <<LF>>)
                 /\ (\A n \in names : \A k \in 1..Len(n) : n[k] # LF) =>
                        Len(Lines(TextOf(Last))) = Cardinality(names)

\* the working directory listed when it holds the directory "a", which has
\* a child of its own, and the file "b"
C8_Witness ==
    /\ ListOfDirectory
    /\ Last.req.args["path"] = <<".">>
    /\ ChildNames(pre, RootKey) = {<<"a">>, <<"b">>}
    /\ <<<<"a">>, <<"b">>>> \in DOMAIN pre
    /\ pre[<<<<"b">>>>].kind = "file"
    /\ Len(Lines(TextOf(Last))) = 2

\* C9: a call whose result is an error leaves the file system as it was; a
\* write_file without content is such a call; read_file, list_directory and
\* file_info never change the file system.
C9_ErrorsChangeNothing ==
    calls # <<>> =>
        /\ Last.res.site # "ok" => fs = pre
        /\ (Last.req.name = NameWriteFile /\ "content" \notin DOMAIN Last.req.args) =>
               StartsWith(TextOf(Last), ErrorPrefix) /\ fs = pre
        /\ Last.req.name \in {NameReadFile, NameListDirectory, NameFileInfo} => fs = pre

----------------------------------------------------------------------------
(* Properties of the concurrent clients' calls.                            *)

\* clients c and d have each finished a delete_file of the same path, which
\* was a regular file when each call began, and nothing but these two calls
\* has changed the file system since either began
TwoDeletes(c, d) ==
    /\ c # d
    /\ frames[c].pc = "done" /\ frames[d].pc = "done"
    /\ frames[c].name = NameDeleteFile /\ frames[d].name = NameDeleteFile
    /\ HasPath(frames[c]) /\ frames[d].args = frames[c].args
    /\ mut[c].wasFile /\ mut[d].wasFile
    /\ mut[c].others \subseteq {d} /\ mut[d].others \subseteq {c}
    /\ ~mut[c].stale /\ ~mut[d].stale

\* C10: with the host calls of concurrent calls interleaved in any order,
\* every finished call has returned exactly one text block and let no
\* exception out; of two concurrent delete_file calls on the same regular
\* file exactly one returns "Successfully deleted: <path>" and the other a
\* text that begins with "Error: ".
C10_Concurrent ==
    /\ \A c \in Clients :
        frames[c].pc = "done" =>
            /\ Len(frames[c].out) = 1
            /\ frames[c].esc = ""
            /\ frames[c].site # "ok" => StartsWith(frames[c].out[1], ErrorPrefix)
    /\ \A c, d \in Clients :
        TwoDeletes(c, d) =>
            \E w \in {c, d} :
                /\ frames[w].out = <<MsgDeleted \o PathStr(frames[w].path)>>
                /\ \A l \in {c, d} \ {w} :
                       /\ frames[l].site # "ok"
                       /\ StartsWith(frames[l].out[1], ErrorPrefix)

\* both clients passed the checks of delete_file before either removed the
\* file: one removed it, the other's unlink raised and was caught
C10_Witness ==
    /\ TwoDeletes("c1", "c2")
    /\ frames["c1"].site = "ok"
    /\ frames["c2"].site = "fault"
    /\ frames["c2"].out = <<ErrorPrefix \o StrENOENT \o Repr(<<"a">>)>>
====
